---------------------------- MODULE Spec2Model ----------------------------
(***************************************************************************)
(* Model of the folo TCP server (crates/folo/src/net/tcp_server.rs):       *)
(* TcpServerBuilder::build, TcpServerHandle, TcpDispatcher (startup and    *)
(* accept loop), AcceptOne and the handler task spawned per connection.    *)
(*                                                                         *)
(* Threads: the user's task (builder, build, stop, drop of the handle),    *)
(* the dispatcher's async worker, the synchronous workers that run the     *)
(* socket-creation and post-accept closures, the kernel (AcceptEx          *)
(* completions) and the async workers that run handler tasks.  Each action *)
(* is one uninterrupted run of one thread.                                 *)
(***************************************************************************)
EXTENDS Integers, FiniteSets, Sequences, TLC

\* tcp_server.rs:183 is 1024; the model keeps the same loop with a small set.
CONCURRENT_ACCEPT_OPERATIONS == 2
\* Connection socket handle values the OS can hand out (reused after close).
MaxSockets == 2
\* Async workers of the runtime that spawn_on_any can pick.
NumWorkers == 2
\* Calls of stop() on one handle that the model follows.
MaxStopCalls == 2
\* OS threads that call the current_runtime functions.
NumThreads == 3
\* RuntimeClient values that can be registered.
NumClients == 2
\* Tasks given to spawn and spawn_on_any that the model follows.
MaxTasks == 2

\* Identities of the futures accept_futures can hold at one time: one more than
\* the limit, so that the limit is kept by the refill loop and not by the model.
Slots == 1..(CONCURRENT_ACCEPT_OPERATIONS + 1)
SocketIds == 1..MaxSockets
Workers == 1..NumWorkers
Threads == 1..NumThreads
Clients == 1..NumClients
TaskIds == 1..MaxTasks
\* The async worker that runs the dispatcher task (spawn_tcp_dispatcher).
DispatcherWorker == 1

VARIABLES
    port,                   \* TcpServerBuilder.port is Some
    on_accept,              \* TcpServerBuilder.on_accept is Some
    buildPc,                \* position of build(): "idle", "awaiting", "returned"
    buildResult,            \* what build() returned
    startup_completed,      \* the startup oneshot channel
    shutdown_tx,            \* where the shutdown Sender lives
    shutdown_msg,           \* what the shutdown Receiver will see
    shutdownSends,          \* number of send() calls on the shutdown Sender
    handle,                 \* TcpServerHandle: "none", "live", "dropped"
    stopCalls,              \* calls of stop() so far
    dispState,              \* dispatcher task: None, Init, Starting, Accepting, Terminated
    dispExit,               \* how the dispatcher task ended: returned, panicked
                            \* (startup), stream ended (the accept loop's panic)
    polling,                \* the dispatcher task is being polled by its worker
    startupFailure,         \* the startup step the OS failed, "none" if none did
    listen_socket,          \* the listening socket
    accept_futures,         \* the AcceptOne futures of the accept loop, by slot
    ops,                    \* the AcceptEx operation of each slot's AcceptOne
    socks,                  \* the connection sockets
    CURRENT,                \* current_runtime: the thread-local cell of each thread
    rtLast,                 \* the last call of a current_runtime function
    tasks                   \* tasks given to spawn and spawn_on_any

vars == <<port, on_accept, buildPc, buildResult, startup_completed, shutdown_tx,
          shutdown_msg, shutdownSends, handle, stopCalls, dispState, dispExit,
          polling, startupFailure, listen_socket, accept_futures, ops, socks,
          CURRENT, rtLast, tasks>>

\* The variables of the TCP server and those of the runtime functions (rt/).
serverVars == <<port, on_accept, buildPc, buildResult, startup_completed, shutdown_tx,
                shutdown_msg, shutdownSends, handle, stopCalls, dispState, dispExit,
                polling, startupFailure, listen_socket, accept_futures, ops, socks>>
runtimeVars == <<CURRENT, rtLast, tasks>>

userVars == <<port, on_accept, buildPc, buildResult, handle, stopCalls>>
shutdownVars == <<shutdown_tx, shutdown_msg, shutdownSends>>
dispVars == <<dispState, dispExit, polling, startupFailure, listen_socket,
             accept_futures>>

-----------------------------------------------------------------------------
(* Values *)

NoResult == [k |-> "none", e |-> "none"]
OkResult == [k |-> "Ok", e |-> "none"]
ErrResult(kind, detail) == [k |-> kind, e |-> detail]

\* An empty place of accept_futures (no future).  rss: how the RSS affinity
\* query of the post-accept closure ended, "none" while it has not run.
NoFuture == [stage |-> "empty", sock |-> 0, ok |-> TRUE, rss |-> "none"]

\* A connection socket handle value that is not in use.
FreeSock == [state |-> "free", owner |-> "none", accepted |-> FALSE,
             observed |-> FALSE, bound |-> 0, binds |-> 0, worker |-> 0, invoked |-> 0]

\* A connection socket as WSASocketA returns it: open, unbound, owned by the
\* AcceptOne future that asked for it.
NewSock == [FreeSock EXCEPT !.state = "open", !.owner = "future"]

\* OwnedHandle::drop: closesocket.  The handle has no owner, is on no
\* completion port and no worker, and its value is free to be handed out again.
Closed(sk) == FreeSock

\* No listening socket yet.  binds counts the bindings of the handle to a
\* completion port, closes the closesocket calls on it.
NoListenSocket == [state |-> "none", bound |-> 0, binds |-> 0, closedBy |-> "none",
                   closes |-> 0]

\* CompletionPort::bind succeeds for handle h on the port of worker p:
\* CreateIoCompletionPort associates h with that port.
Bind(h, p) == [h EXCEPT !.bound = p, !.binds = @ + 1]

\* No I/O operation: no control block, no buffer lent, no result, and the
\* caller holds no buffer.  Buffers are named by the slot that took them from
\* the pool; 0 is no buffer.  imm: the initiator returned success at once and
\* the packet of that completion is still in the port.
NoOp == [st |-> "none", awaited |-> FALSE, mem |-> FALSE, lent |-> 0,
         res |-> [k |-> "none", inner |-> "none", buffer |-> 0], caller |-> 0,
         imm |-> FALSE]

\* No call of a current_runtime function yet.  ret is the client a call
\* yields (0 is None, or nothing), flag the bool of is_some.
NoCall == [fn |-> "none", thread |-> 0, arg |-> 0, panicked |-> FALSE, ret |-> 0,
           flag |-> FALSE]

\* No task.
NoTask == [via |-> "none", state |-> "none", spawner |-> 0, home |-> 0,
           created |-> 0, polled |-> 0]

\* The TCP server before TcpServerBuilder::new.
ServerInit ==
    /\ port = FALSE
    /\ on_accept = FALSE
    /\ buildPc = "idle"
    /\ buildResult = NoResult
    /\ startup_completed = NoResult
    /\ shutdown_tx = "none"
    /\ shutdown_msg = "empty"
    /\ shutdownSends = 0
    /\ handle = "none"
    /\ stopCalls = 0
    /\ dispState = "None"
    /\ dispExit = "none"
    /\ polling = FALSE
    /\ startupFailure = "none"
    /\ listen_socket = NoListenSocket
    /\ accept_futures = [i \in Slots |-> NoFuture]
    /\ ops = [i \in Slots |-> NoOp]
    /\ socks = [s \in SocketIds |-> FreeSock]

\* The TCP server is followed; the threads and tasks of the runtime functions
\* are followed by the specifications of their own.
Init ==
    /\ ServerInit
    /\ CURRENT = <<>>
    /\ rtLast = NoCall
    /\ tasks = <<>>

\* Every thread starts with an empty cell: CURRENT is const { RefCell::new(None) }.
CurrentRuntimeInit ==
    /\ ServerInit
    /\ CURRENT = [t \in Threads |-> 0]
    /\ rtLast = NoCall
    /\ tasks = <<>>

\* No task has been spawned.
SpawnInit ==
    /\ ServerInit
    /\ CURRENT = <<>>
    /\ rtLast = NoCall
    /\ tasks = [k \in TaskIds |-> NoTask]

-----------------------------------------------------------------------------
(* The user's task: TcpServerBuilder, build(), TcpServerHandle *)

\* TcpServerBuilder::port
SetPort ==
    /\ buildPc = "idle"
    /\ ~port
    /\ port' = TRUE
    /\ UNCHANGED <<on_accept, buildPc, buildResult, handle, stopCalls,
                   startup_completed, shutdownVars, dispVars, socks>>
    /\ UNCHANGED ops
    /\ UNCHANGED runtimeVars

\* TcpServerBuilder::on_accept
SetOnAccept ==
    /\ buildPc = "idle"
    /\ ~on_accept
    /\ on_accept' = TRUE
    /\ UNCHANGED <<port, buildPc, buildResult, handle, stopCalls,
                   startup_completed, shutdownVars, dispVars, socks>>
    /\ UNCHANGED ops
    /\ UNCHANGED runtimeVars

\* C9 mutant: the two option checks in the other order.
CheckOptionsOnAcceptFirst(p, a) ==
    IF ~a THEN ErrResult("InvalidOptions", "on_accept must be set")
    ELSE IF ~p THEN ErrResult("InvalidOptions", "port must be set")
    ELSE NoResult

\* The two ok_or_else(...)? at the head of build(): the error build() returns
\* at once, NoResult when both options are set.
CheckOptions(p, a) ==
    IF ~p THEN ErrResult("InvalidOptions", "port must be set")
    ELSE IF ~a THEN ErrResult("InvalidOptions", "on_accept must be set")
    ELSE NoResult

\* build() up to its await: option checks, the two channels, spawn_tcp_dispatcher.
BuildCall ==
    /\ buildPc = "idle"
    /\ IF CheckOptions(port, on_accept) # NoResult
       THEN /\ buildResult' = CheckOptions(port, on_accept)
            /\ buildPc' = "returned"
            /\ UNCHANGED <<startup_completed, shutdown_tx, dispState>>
       ELSE /\ startup_completed' = [k |-> "empty", e |-> "none"]
            /\ shutdown_tx' = "build"
            /\ dispState' = "Init"
            /\ buildPc' = "awaiting"
            /\ UNCHANGED buildResult
    /\ UNCHANGED <<port, on_accept, handle, stopCalls, shutdown_msg, shutdownSends,
                   dispExit, polling, startupFailure, listen_socket, accept_futures,
                   socks>>
    /\ UNCHANGED ops
    /\ UNCHANGED runtimeVars

\* C8 mutant: an error reported by the dispatcher is swallowed.
StartupOutcomeIgnoresErr(msg) ==
    IF msg.k = "dropped"
    THEN ErrResult("Internal", "TCP dispatcher died before reporting startup result")
    ELSE OkResult

\* The match on startup_completed_rx.await in build().
StartupOutcome(msg) ==
    IF msg.k = "Ok" THEN OkResult
    ELSE IF msg.k = "Err" THEN ErrResult("Err", msg.e)
    ELSE ErrResult("Internal", "TCP dispatcher died before reporting startup result")

\* build() from its await to its return.
BuildResume ==
    /\ buildPc = "awaiting"
    /\ startup_completed.k \in {"Ok", "Err", "dropped"}
    /\ buildResult' = StartupOutcome(startup_completed)
    /\ buildPc' = "returned"
    /\ IF StartupOutcome(startup_completed) = OkResult
       THEN /\ handle' = "live"
            /\ shutdown_tx' = "handle"
            /\ UNCHANGED shutdown_msg
       ELSE \* build()'s locals, the shutdown Sender among them, are dropped
            /\ shutdown_tx' = "dropped"
            /\ shutdown_msg' = "disconnected"
            /\ UNCHANGED handle
    /\ UNCHANGED <<port, on_accept, stopCalls, startup_completed, shutdownSends,
                   dispVars, socks>>
    /\ UNCHANGED ops
    /\ UNCHANGED runtimeVars

\* The shutdown Receiver is owned by the dispatcher task until the task ends.
ReceiverAlive == dispState \in {"Init", "Starting", "Accepting"}

\* C3 mutant: stop() sends whenever it is called.
StopSendsAlways(tx) == tx \in {"handle", "taken"}

\* stop(): dispatcher_shutdown_tx.take() is Some.
StopSends(tx) == tx = "handle"

\* TcpServerHandle::stop
Stop ==
    /\ handle = "live"
    /\ stopCalls < MaxStopCalls
    /\ stopCalls' = stopCalls + 1
    /\ IF StopSends(shutdown_tx)
       THEN /\ shutdown_tx' = "taken"
            /\ shutdownSends' = shutdownSends + 1
            \* the result of send() is ignored; it fails when the Receiver is gone
            /\ shutdown_msg' = IF ReceiverAlive THEN "sent" ELSE shutdown_msg
       ELSE UNCHANGED shutdownVars
    /\ UNCHANGED <<port, on_accept, buildPc, buildResult, handle,
                   startup_completed, dispVars, socks>>
    /\ UNCHANGED ops
    /\ UNCHANGED runtimeVars

\* Drop of the TcpServerHandle: its fields are dropped, the Sender among them
\* when stop() has not consumed it.  A oneshot Receiver whose Sender is dropped
\* resolves (with RecvError).
DropHandle ==
    /\ handle = "live"
    /\ handle' = "dropped"
    /\ IF shutdown_tx = "handle"
       THEN /\ shutdown_tx' = "dropped"
            /\ shutdown_msg' = "disconnected"
       ELSE UNCHANGED <<shutdown_tx, shutdown_msg>>
    /\ UNCHANGED <<port, on_accept, buildPc, buildResult, stopCalls,
                   startup_completed, shutdownSends, dispVars, socks>>
    /\ UNCHANGED ops
    /\ UNCHANGED runtimeVars

-----------------------------------------------------------------------------
(* The dispatcher task: TcpDispatcher::run, startup *)

\* The steps of startup() that can fail with an OS error.
StartupSteps == {"WSASocketA", "bind", "listen", "bind_io_primitive"}

\* accept_futures.len()
FuturesLen(fs) == Cardinality({i \in Slots : fs[i].stage # "empty"})

\* AcceptOne { .. }.execute() after its first poll: the socket-creation closure
\* is queued on a synchronous worker.
NewAcceptOne == [NoFuture EXCEPT !.stage = "createSocket"]

\* accept_futures.push(f)
Push(fs, f) ==
    LET i == CHOOSE j \in Slots :
                 /\ fs[j].stage = "empty"
                 /\ \A k \in Slots : fs[k].stage = "empty" => j <= k
    IN  [fs EXCEPT ![i] = f]

\* C6 mutant: the refill loop stops one short of the limit.
RECURSIVE RefillOneShort(_)
RefillOneShort(fs) ==
    IF FuturesLen(fs) < CONCURRENT_ACCEPT_OPERATIONS - 1
    THEN RefillOneShort(Push(fs, NewAcceptOne))
    ELSE fs

\* C20 mutant: the refill loop pushes one future beyond the limit.
RECURSIVE RefillOneOver(_)
RefillOneOver(fs) ==
    IF FuturesLen(fs) <= CONCURRENT_ACCEPT_OPERATIONS
    THEN RefillOneOver(Push(fs, NewAcceptOne))
    ELSE fs

\* while accept_futures.len() < CONCURRENT_ACCEPT_OPERATIONS { push }
RECURSIVE Refill(_)
Refill(fs) ==
    IF FuturesLen(fs) < CONCURRENT_ACCEPT_OPERATIONS
    THEN Refill(Push(fs, NewAcceptOne))
    ELSE fs

\* accept_futures.next() on an empty FuturesUnordered yields None at once: the
\* loop's Either::Left((None, _)) arm, which panics.
StreamEnded(fs) == FuturesLen(fs) = 0

\* The closure given to spawn_tcp_dispatcher starts to run on the dispatcher's
\* worker: TcpDispatcher::new(..).run() is entered.
DispatcherBegin ==
    /\ dispState = "Init"
    /\ dispState' = "Starting"
    /\ UNCHANGED <<userVars, startup_completed, shutdownVars, dispExit, polling,
                   startupFailure, listen_socket, accept_futures, socks>>
    /\ UNCHANGED ops
    /\ UNCHANGED runtimeVars

\* The listening socket when startup() ends having failed at step f: never
\* created when WSASocketA failed, else closed by the drop of its OwnedHandle.
ListenSocketAfterFailure(f) ==
    IF f = "WSASocketA" THEN NoListenSocket
    ELSE [NoListenSocket EXCEPT !.state = "closed", !.closedBy = "dispatcher",
                                !.closes = 1]

\* run(): startup() and what run() does with its result.  f is the step the OS
\* fails, "none" when every step succeeds.  WSASocketA, bind and listen return
\* their error with `?`; bind_io_primitive(..).unwrap() panics instead, which
\* drops the dispatcher and its startup Sender unsent.
DispatcherStartup ==
    /\ dispState = "Starting"
    /\ \E f \in StartupSteps \cup {"none"} :
        /\ startupFailure' = f
        /\ IF f = "none"
           THEN /\ startup_completed' = OkResult
                /\ listen_socket' = Bind([NoListenSocket EXCEPT !.state = "listening"],
                                         DispatcherWorker)
                /\ accept_futures' = Refill(accept_futures)
                /\ dispState' = IF StreamEnded(accept_futures') THEN "Terminated"
                                                                ELSE "Accepting"
                /\ dispExit' = IF StreamEnded(accept_futures') THEN "stream ended"
                                                               ELSE dispExit
           ELSE /\ startup_completed' =
                      IF f = "bind_io_primitive"
                      THEN [k |-> "dropped", e |-> "none"]
                      ELSE ErrResult("Err", f)
                /\ listen_socket' = ListenSocketAfterFailure(f)
                /\ dispState' = "Terminated"
                /\ dispExit' = IF f = "bind_io_primitive" THEN "panicked" ELSE "returned"
                /\ UNCHANGED accept_futures
    /\ UNCHANGED <<userVars, shutdownVars, polling, socks>>
    /\ UNCHANGED ops
    /\ UNCHANGED runtimeVars

-----------------------------------------------------------------------------
(* AcceptOne::execute, driven by the synchronous workers, the kernel, the    *)
(* dispatcher worker's completion engine and the polls of the dispatcher     *)

\* PinnedBuffer::from_pool(), io.new_operation(buffer) and
\* accept_operation.begin(AcceptEx ..) for the AcceptOne of slot i: a control
\* block is allocated, the buffer is lent to the operation and the kernel holds
\* pointers to both until it has posted the completion packet.
BeginOperation(i) == [NoOp EXCEPT !.st = "pending", !.awaited = TRUE,
                                  !.mem = TRUE, !.lent = i]

\* What the initiator closure given to begin() can return: AcceptEx returned
\* FALSE with ERROR_IO_PENDING ("pending"), TRUE ("success"), or FALSE with
\* another error ("failed").
InitiatorOutcomes == {"pending", "success", "failed"}

\* Ok(buffer) of OperationResult
OperationOk(buffer) == [k |-> "Ok", inner |-> "none", buffer |-> buffer]

\* C12 mutant: the error value is built without the buffer.
OperationErrorWithoutBuffer(inner, buffer) ==
    [k |-> "Err", inner |-> inner, buffer |-> 0]

\* OperationError::new(inner, buffer)
OperationError(inner, buffer) == [k |-> "Err", inner |-> inner, buffer |-> buffer]

\* C23 mutant: a synchronous success of the initiator resolves the operation
\* on the spot, before any packet is taken from the port.
StartedResolvesAtOnce(op, r) ==
    IF r = "pending" THEN op
    ELSE [op EXCEPT !.st = "done", !.lent = 0, !.imm = (r = "success"),
                    !.res = IF r = "success" THEN OperationOk(op.lent)
                            ELSE OperationError("initiator error", op.lent)]

\* The operation after the initiator returned r.  Pending: the kernel will
\* post a packet later.  Success: the accept is done already, and the kernel
\* has queued the completion packet all the same (the handle's notification
\* mode is FILE_SKIP_SET_EVENT_ON_HANDLE only), so the operation waits for
\* the engine to take that packet.  Failed: there will be no packet and the
\* operation resolves with the error, which carries the buffer.
Started(op, r) ==
    IF r = "pending" THEN op
    ELSE IF r = "success" THEN [op EXCEPT !.st = "posted", !.imm = TRUE]
    ELSE [op EXCEPT !.st = "done", !.lent = 0,
                    !.res = OperationError("initiator error", op.lent)]

\* OperationResultExt::into_inner: Ok(buffer) stays, Err(OperationError) becomes
\* Err(inner) and the buffer of the error is dropped (back to its pool).
IntoInner(res) == IF res.k = "Ok" THEN res ELSE [res EXCEPT !.buffer = 0]

\* An abandoned operation after its packet was taken: off the abandoned list,
\* control block freed, buffer back in the pool, no result kept.
Released == [NoOp EXCEPT !.st = "released"]

\* C22 mutant: the engine resolves an abandoned operation like an awaited one
\* and keeps its control block for an awaiter that will never come.
CompleteKeepsAbandoned(op, ok) ==
    [op EXCEPT !.st = "done", !.lent = 0,
               !.res = IF ok THEN OperationOk(op.lent)
                             ELSE OperationError("os error", op.lent)]

\* The engine has taken the completion packet of operation op.  An operation
\* that is still awaited resolves: its result carries the lent buffer, in Ok or
\* inside the OperationError.  An abandoned operation is released: the result
\* is discarded, the control block is freed and the buffer goes back to the
\* pool.
Complete(op, ok) ==
    IF op.awaited
    THEN [op EXCEPT !.st = "done", !.lent = 0, !.imm = FALSE,
                    !.res = IF ok THEN OperationOk(op.lent)
                                  ELSE OperationError("os error", op.lent)]
    ELSE Released

\* C11 mutant: dropping the future frees the control block and the buffer at
\* once, whatever the kernel still holds.
AbandonReleasesAtOnce(op) ==
    IF op.st \in {"pending", "posted"}
    THEN [op EXCEPT !.awaited = FALSE, !.mem = FALSE, !.lent = 0]
    ELSE NoOp

\* Drop of the operation's future.  While the kernel has not reported the
\* completion and the engine has not taken it, the control block and the
\* buffer stay with the engine (the operation is abandoned); a resolved
\* operation and a buffer the caller holds are released by the drop.
Abandon(op) ==
    IF op.st \in {"pending", "posted"}
    THEN [op EXCEPT !.awaited = FALSE]
    ELSE NoOp

\* Post-accept closures on synchronous workers, each holding a clone of the
\* listen socket Arc (Arc::clone at the head of the fixup step).
ClosureRefs(ss) == Cardinality({s \in SocketIds : ss[s].owner \in {"closure", "orphan"}})

\* Strong references to the listen socket Arc: the dispatcher's own from
\* startup() until run() returns, one per AcceptOne in accept_futures and one
\* per post-accept closure.
ListenRefs ==
    (IF dispState = "Accepting" THEN 1 ELSE 0) + FuturesLen(accept_futures)
        + ClosureRefs(socks)

\* C14 mutant: every release of a reference closes the socket.
ReleaseClosesAlways(ls, refsLeft, who) ==
    [ls EXCEPT !.state = "closed", !.closedBy = who, !.closes = @ + 1]

\* C21 mutant: the dispatcher owns the socket and closes it when it returns;
\* the futures and closures hold the raw value only.
ReleaseByDispatcherCloses(ls, refsLeft, who) ==
    IF who = "dispatcher" /\ ls.state = "listening"
    THEN [ls EXCEPT !.state = "closed", !.closedBy = who, !.closes = @ + 1]
    ELSE ls

\* Drop of one strong reference to the listen socket Arc by `who`: the release
\* that leaves none drops the OwnedHandle, which closes the socket.
ReleaseListenSocket(ls, refsLeft, who) ==
    IF refsLeft = 0
    THEN [ls EXCEPT !.state = "closed", !.closedBy = who, !.closes = @ + 1]
    ELSE ls

\* Handle values WSASocketA can return: those not open now.
Allocatable == {s \in SocketIds : socks[s].state # "open"}

\* A synchronous worker runs the first closure of execute(): WSASocketA for the
\* connection socket, which succeeds (some unused handle value) or fails.
SyncCreateSocket(i) ==
    /\ accept_futures[i].stage = "createSocket"
    /\ \/ \E s \in Allocatable :
            /\ socks' = [socks EXCEPT ![s] = NewSock]
            /\ accept_futures' = [accept_futures EXCEPT
                                     ![i] = [NoFuture EXCEPT !.stage = "socketReady", !.sock = s]]
       \/ /\ accept_futures' = [accept_futures EXCEPT
                                     ![i] = [NoFuture EXCEPT !.stage = "socketReady", !.ok = FALSE]]
          /\ UNCHANGED socks
    /\ UNCHANGED <<userVars, startup_completed, shutdownVars, dispState, dispExit,
                   polling, startupFailure, listen_socket>>
    /\ UNCHANGED ops
    /\ UNCHANGED runtimeVars

\* C27 mutant: execute() goes on to the accept whatever the socket-creation
\* closure returned.
SocketCreatedOrNot(f) == f.stage = "socketReady"

\* `.await?` on the result of the socket-creation closure: execute() goes on
\* only with Ok(connection_socket).
SocketCreated(f) == f.stage = "socketReady" /\ f.ok

\* The dispatcher polls AcceptOne i, which goes on to its next await: after the
\* socket was created, accept_operation.begin(AcceptEx); after the accept
\* completed, the post-accept closure is moved to a synchronous worker together
\* with the connection socket and a clone of the listen socket Arc.
PollAcceptOne(i) ==
    /\ dispState = "Accepting"
    /\ \/ /\ SocketCreated(accept_futures[i])
          /\ \E r \in InitiatorOutcomes :
                /\ ops' = [ops EXCEPT ![i] = Started(BeginOperation(i), r)]
                /\ accept_futures' = [accept_futures EXCEPT
                      ![i].stage = IF ops'[i].st = "pending" THEN "acceptPending"
                                   ELSE IF ops'[i].st = "posted" THEN "packetPosted"
                                   ELSE "acceptDone",
                      ![i].ok = (r # "failed")]
                /\ socks' = [s \in SocketIds |->
                      IF s = accept_futures[i].sock
                      THEN [socks[s] EXCEPT !.accepted = (r = "success")]
                      ELSE socks[s]]
       \/ /\ accept_futures[i].stage = "acceptDone" /\ accept_futures[i].ok
          /\ accept_futures' = [accept_futures EXCEPT ![i].stage = "fixup"]
          \* `.await.into_inner()?` is Ok: the buffer is now a local of execute()
          /\ ops' = [ops EXCEPT ![i] = [NoOp EXCEPT !.caller = IntoInner(ops[i].res).buffer]]
          /\ socks' = [socks EXCEPT ![accept_futures[i].sock].owner = "closure"]
    /\ polling' = TRUE
    /\ UNCHANGED <<userVars, startup_completed, shutdownVars, dispState, dispExit,
                   startupFailure, listen_socket>>
    /\ UNCHANGED runtimeVars

\* The kernel completes the pending AcceptEx of slot i and posts the
\* completion packet to the port of the listening socket: a client connected
\* (ok) or the accept failed.  An operation whose future was dropped has lost
\* its connection socket and can only fail.
KernelCompleteAccept(i) ==
    /\ ops[i].st = "pending"
    /\ ops' = [ops EXCEPT ![i].st = "posted"]
    /\ IF ops[i].awaited
       THEN \E ok \in BOOLEAN :
              /\ accept_futures' = [accept_futures EXCEPT
                                       ![i].stage = "packetPosted", ![i].ok = ok]
              /\ socks' = [socks EXCEPT ![accept_futures[i].sock].accepted = ok]
       ELSE UNCHANGED <<accept_futures, socks>>
    /\ UNCHANGED <<userVars, startup_completed, shutdownVars, dispState, dispExit,
                   polling, startupFailure, listen_socket>>
    /\ UNCHANGED runtimeVars

\* C24 mutant: the engine hands a packet to the operation next to the one
\* whose control block the packet carries.
RoutedToNext(p) == (p % (CONCURRENT_ACCEPT_OPERATIONS + 1)) + 1

\* The operation a dequeued packet belongs to: the one whose control block
\* (named by its slot) the packet carries.
RoutedTo(p) == p

\* The completion engine of the dispatcher's worker takes the packet of slot
\* i's operation from its port and routes it.  The engine runs on the
\* worker's own thread, so not while the dispatcher task is being polled; it
\* goes on running after the dispatcher task has ended.
ObserveCompletion(i) ==
    /\ dispState \in {"Accepting", "Terminated"}
    /\ ~polling
    /\ ops[i].st = "posted"
    /\ LET j == RoutedTo(i) IN
        /\ ops' = [ops EXCEPT ![j] = Complete(@, accept_futures[j].ok)]
        /\ IF ops[j].awaited
           THEN /\ accept_futures' = [accept_futures EXCEPT ![j].stage = "acceptDone"]
                /\ socks' = [socks EXCEPT ![accept_futures[j].sock].observed = TRUE]
           ELSE UNCHANGED <<accept_futures, socks>>
    /\ UNCHANGED <<userVars, startup_completed, shutdownVars, dispState, dispExit,
                   polling, startupFailure, listen_socket>>
    /\ UNCHANGED runtimeVars

\* C25 mutant: the AcceptOne keeps the socket value after the closure that
\* owned the socket has failed and dropped it.
FixupReturnedKeepsSocket(s, ok, rss) ==
    [stage |-> "fixupReady", sock |-> s, ok |-> ok, rss |-> rss]

\* The AcceptOne when its post-accept closure has returned: Ok brings the
\* connection socket back; on Err the socket has gone with the closure.
FixupReturned(s, ok, rss) ==
    [stage |-> "fixupReady", sock |-> IF ok THEN s ELSE 0, ok |-> ok, rss |-> rss]

\* The arms of `match affinity_result` after WSAIoctl(SIO_QUERY_RSS_PROCESSOR_INFO):
\* Ok, one of the two tolerated errors (WSAEOPNOTSUPP, WSAEACCES), any other
\* error.
RssOutcomes == {"Ok", "tolerated", "error"}

\* C26 mutant: an RSS query error that is not one of the tolerated two is
\* returned as the closure's error.
FixupOutcomeRssFatal(setsockoptOk, rss) == setsockoptOk /\ rss # "error"

\* Whether the post-accept closure returns Ok: setsockopt's error is returned
\* with `?`; every arm of the match on the RSS query only logs, and Ok((socket,
\* affinity_info)) follows.
FixupOutcome(setsockoptOk, rss) == setsockoptOk

\* A synchronous worker runs the post-accept closure of AcceptOne i:
\* setsockopt(SO_UPDATE_ACCEPT_CONTEXT) succeeds or fails; on failure the
\* closure returns with `?`, before the RSS query.  A closure that does not
\* return Ok drops the connection socket it owns.
SyncFixup(i) ==
    /\ accept_futures[i].stage = "fixup"
    /\ LET s == accept_futures[i].sock IN
       \E setsockoptOk \in BOOLEAN :
       \E rss \in IF setsockoptOk THEN RssOutcomes ELSE {"none"} :
       LET ok == FixupOutcome(setsockoptOk, rss) IN
        /\ accept_futures' = [accept_futures EXCEPT ![i] = FixupReturned(s, ok, rss)]
        /\ socks' = [socks EXCEPT ![s] = IF ok THEN [@ EXCEPT !.owner = "future"]
                                               ELSE Closed(@)]
    \* the closure's clone of the listen socket Arc is dropped with the closure
    /\ listen_socket' = ReleaseListenSocket(listen_socket, ListenRefs - 1,
                                            "sync worker")
    /\ UNCHANGED <<userVars, startup_completed, shutdownVars, dispState, dispExit,
                   polling, startupFailure>>
    /\ UNCHANGED ops
    /\ UNCHANGED runtimeVars

-----------------------------------------------------------------------------
(* The accept loop: TcpDispatcher::run_accept_loop *)

\* AcceptOne f returns from execute() when polled: the socket creation failed
\* (`.await?`), the accept failed (`.into_inner()?`), or the post-accept closure
\* returned (Ok or Err).
Resolved(f) ==
    \/ f.stage = "socketReady" /\ ~f.ok
    \/ f.stage = "acceptDone" /\ ~f.ok
    \/ f.stage = "fixupReady"

\* AcceptOne f has been woken: polling it makes it advance or return.
Woken(f) == f.stage \in {"socketReady", "acceptDone", "fixupReady"}

\* C10 mutant: an accept error ends the accept loop.
AfterAcceptResultErrorIsFatal(ok) == IF ok THEN "Accepting" ELSE "Terminated"

\* The dispatcher after one accept result: `continue` on Err, spawn and loop on Ok.
AfterAcceptResult(ok) == "Accepting"

\* C13 mutant: the dispatcher's worker takes handler tasks as well.
SpawnOnAnyTargetsAll == Workers

\* The async workers spawn_on_any may choose for a handler task: the dispatcher
\* runs on the TCP dispatcher thread, a worker of its own.
SpawnOnAnyTargets == Workers \ {DispatcherWorker}

\* select() resolved Left: accept_futures.next() yielded the result of AcceptOne
\* i.  Ok(connection_socket): the handler closure is sent to some async worker
\* with the socket.  Err: logged; a socket the future still owned is dropped.
\* Then the loop refills accept_futures and awaits again.
AcceptResult(i) ==
    /\ dispState = "Accepting"
    /\ Resolved(accept_futures[i])
    /\ LET f == accept_futures[i]
           s == f.sock
       IN  /\ IF f.ok
              THEN \E w \in SpawnOnAnyTargets :
                      socks' = [socks EXCEPT ![s].owner = "task", ![s].worker = w]
              ELSE IF s # 0
                   THEN socks' = [socks EXCEPT ![s] = Closed(@)]
                   ELSE UNCHANGED socks
           /\ accept_futures' = Refill([accept_futures EXCEPT ![i] = NoFuture])
           \* the locals of execute() are gone, the accept buffer among them
           /\ ops' = [ops EXCEPT ![i] = NoOp]
           /\ dispState' = IF StreamEnded(accept_futures') THEN "Terminated"
                           ELSE AfterAcceptResult(f.ok)
           /\ dispExit' = IF StreamEnded(accept_futures') THEN "stream ended"
                          ELSE dispExit
    /\ polling' = TRUE
    /\ UNCHANGED <<userVars, startup_completed, shutdownVars,
                   startupFailure, listen_socket>>
    /\ UNCHANGED runtimeVars

\* The shutdown Receiver is ready when polled: a message was sent, or the
\* Sender was dropped (the Receiver then resolves with RecvError).  The loop
\* matches both with Either::Right(_).
ShutdownReady(msg) == msg \in {"sent", "disconnected"}

\* C15 mutant: a dropped AcceptOne leaves its connection socket open.
AfterDropOfFuturesLeaks(sk) ==
    IF sk.owner = "future" THEN [sk EXCEPT !.owner = "none"]
    ELSE IF sk.owner = "closure" THEN [sk EXCEPT !.owner = "orphan"]
    ELSE sk

\* A connection socket when accept_futures is dropped: one owned by an
\* AcceptOne is closed by the drop of its OwnedHandle; one that was moved into
\* a post-accept closure stays with the closure, whose result nobody will take.
AfterDropOfFutures(sk) ==
    IF sk.owner = "future" THEN Closed(sk)
    ELSE IF sk.owner = "closure" THEN [sk EXCEPT !.owner = "orphan"]
    ELSE sk

\* C29 mutant: the AcceptOne futures outlive the accept loop.
DropOfAcceptFuturesKeepsThem(fs) == fs

\* accept_futures, a local of run_accept_loop, when the function returns:
\* every AcceptOne in it is dropped.
DropOfAcceptFutures(fs) == [i \in Slots |-> NoFuture]

\* select() resolved Right.  select polls accept_futures.next() first, so this
\* happens only when no AcceptOne is woken.  run_accept_loop returns: the
\* futures are dropped with the sockets they own, post-accept closures already
\* on a synchronous worker live on with their socket and their clone of the
\* listen socket Arc, and the dispatcher's own reference to the listen socket is
\* dropped.
ObserveShutdown ==
    /\ dispState = "Accepting"
    /\ \A i \in Slots : ~Woken(accept_futures[i])
    /\ ShutdownReady(shutdown_msg)
    /\ dispState' = "Terminated"
    /\ dispExit' = "returned"
    /\ polling' = FALSE
    /\ accept_futures' = DropOfAcceptFutures(accept_futures)
    /\ ops' = [i \in Slots |-> Abandon(ops[i])]
    /\ socks' = [s \in SocketIds |-> AfterDropOfFutures(socks[s])]
    /\ listen_socket' = ReleaseListenSocket(listen_socket, ClosureRefs(socks),
                                            "dispatcher")
    /\ UNCHANGED <<userVars, startup_completed, shutdownVars, startupFailure>>
    /\ UNCHANGED runtimeVars

\* select() returns Pending: no AcceptOne is woken and the shutdown Receiver is
\* not ready.  The poll of the dispatcher task ends and its worker goes on to
\* its other tasks and its completion engine.
ReturnPending ==
    /\ dispState = "Accepting"
    /\ polling
    /\ \A i \in Slots : ~Woken(accept_futures[i])
    /\ ~ShutdownReady(shutdown_msg)
    /\ polling' = FALSE
    /\ UNCHANGED <<userVars, startup_completed, shutdownVars, dispState, dispExit,
                   startupFailure, listen_socket, accept_futures, socks>>
    /\ UNCHANGED ops
    /\ UNCHANGED runtimeVars

\* A synchronous worker runs a post-accept closure whose AcceptOne was dropped:
\* its result has no receiver, so the connection socket is dropped, and so is
\* the closure's clone of the listen socket Arc; the last clone closes the
\* listening socket.
OrphanFixup(s) ==
    /\ socks[s].owner = "orphan"
    /\ socks' = [socks EXCEPT ![s] = Closed(@)]
    /\ listen_socket' = ReleaseListenSocket(listen_socket, ListenRefs - 1,
                                            "sync worker")
    /\ UNCHANGED <<userVars, startup_completed, shutdownVars, dispState, dispExit,
                   polling, startupFailure, accept_futures>>
    /\ UNCHANGED ops
    /\ UNCHANGED runtimeVars

-----------------------------------------------------------------------------
(* The handler task: the closure given to spawn_on_any *)

\* Worker w can run a task now: a worker runs one task at a time, so the
\* dispatcher's worker runs no other task while it polls the dispatcher.
OnWorker(w) == w # DispatcherWorker \/ ~polling

\* C5 mutant: the connection socket is bound on the dispatcher's engine.
HandlerPortIsDispatchers(w) == DispatcherWorker

\* current_async_agent::with_io on the handler's thread: the completion port
\* of the worker w that runs the task.
HandlerPort(w) == w

\* C4 mutant: the handler closure never calls on_accept.
OnAcceptNeverCalled(bindOk) == 0

\* Calls of on_accept by one run of the handler closure: one after
\* bind_io_primitive(..).unwrap(), none when the unwrap panics.
OnAcceptCalls(bindOk) == IF bindOk THEN 1 ELSE 0

\* The handler closure runs on its worker: the connection socket is bound to
\* that worker's completion port (the unwrap panics when the bind fails, which
\* drops the socket), the TcpConnection is made and on_accept is called with it.
HandlerStart(s) ==
    /\ socks[s].owner = "task"
    /\ OnWorker(socks[s].worker)
    /\ \E bindOk \in BOOLEAN :
         socks' = [socks EXCEPT ![s] =
                     LET sk == [@ EXCEPT !.invoked = @ + OnAcceptCalls(bindOk)]
                         bd == IF bindOk THEN Bind(sk, HandlerPort(socks[s].worker)) ELSE sk
                     IN  IF bindOk THEN [bd EXCEPT !.owner = "conn"] ELSE Closed(bd)]
    /\ UNCHANGED <<userVars, startup_completed, shutdownVars, dispVars>>
    /\ UNCHANGED ops
    /\ UNCHANGED runtimeVars

\* The future returned by on_accept completes, with Ok or with Err: the
\* closure ignores which (`_ = ..await`).  The TcpConnection, dropped by then,
\* has closed the socket.
HandlerFinish(s) ==
    /\ socks[s].owner = "conn"
    /\ OnWorker(socks[s].worker)
    /\ socks' = [socks EXCEPT ![s] = Closed(@)]
    /\ UNCHANGED <<userVars, startup_completed, shutdownVars, dispVars>>
    /\ UNCHANGED ops
    /\ UNCHANGED runtimeVars

-----------------------------------------------------------------------------
(* rt/current_runtime.rs: the runtime client registered for each thread *)

\* C17 mutant: with() hands the closure whatever the cell holds, without
\* a panic.
WithNeverPanics(runtime) == [panicked |-> FALSE, ret |-> runtime]

\* with(f): runtime.as_ref().expect(..) panics on None, else f gets the client.
With(runtime) == [panicked |-> runtime = 0, ret |-> runtime]

\* try_get(): runtime.clone()
TryGet(runtime) == runtime

\* is_some(): runtime.is_some()
IsSome(runtime) == runtime # 0

\* C18 mutant: set() stores the value before it checks.
SetStoresFirst(runtime, value) == [panicked |-> runtime # 0, cell |-> value]

\* set(value): assert!(runtime.is_none()) panics before the assignment, which
\* therefore happens only in an empty cell.
Set(runtime, value) ==
    [panicked |-> runtime # 0, cell |-> IF runtime # 0 THEN runtime ELSE value]

\* Thread t calls current_runtime::with.
CurrentRuntimeWith(t) ==
    /\ rtLast' = [NoCall EXCEPT !.fn = "with", !.thread = t,
                                !.panicked = With(CURRENT[t]).panicked,
                                !.ret = With(CURRENT[t]).ret]
    /\ UNCHANGED <<serverVars, CURRENT, tasks>>

\* Thread t calls current_runtime::try_get.
CurrentRuntimeTryGet(t) ==
    /\ rtLast' = [NoCall EXCEPT !.fn = "try_get", !.thread = t,
                                !.ret = TryGet(CURRENT[t])]
    /\ UNCHANGED <<serverVars, CURRENT, tasks>>

\* Thread t calls current_runtime::is_some.
CurrentRuntimeIsSome(t) ==
    /\ rtLast' = [NoCall EXCEPT !.fn = "is_some", !.thread = t,
                                !.flag = IsSome(CURRENT[t])]
    /\ UNCHANGED <<serverVars, CURRENT, tasks>>

\* Thread t calls current_runtime::set(value).
CurrentRuntimeSet(t, value) ==
    /\ CURRENT' = [CURRENT EXCEPT ![t] = Set(@, value).cell]
    /\ rtLast' = [NoCall EXCEPT !.fn = "set", !.thread = t, !.arg = value,
                                !.panicked = Set(CURRENT[t], value).panicked]
    /\ UNCHANGED <<serverVars, tasks>>

-----------------------------------------------------------------------------
(* rt/functions.rs: spawn and spawn_on_any *)

\* C16 mutant: spawn() hands the future to the agent of the next worker.
NextAgent(t) == (t % NumWorkers) + 1

\* current_agent::get(): the agent of the calling thread.
CurrentAgent(t) == t

\* spawn(future) called on async worker t: the future, made on t, is given to
\* the agent of the current thread.
Spawn(t, k) ==
    /\ tasks[k] = NoTask
    /\ tasks' = [tasks EXCEPT ![k] =
                    [via |-> "spawn", state |-> "queued", spawner |-> t,
                     home |-> CurrentAgent(t), created |-> t, polled |-> 0]]
    /\ UNCHANGED <<serverVars, CURRENT, rtLast>>

\* spawn_on_any(future_fn) called on async worker t: the closure, which is
\* Send, is moved to some async worker; no future exists yet.
SpawnOnAny(t, k) ==
    /\ tasks[k] = NoTask
    /\ \E w \in SpawnOnAnyTargets :
         tasks' = [tasks EXCEPT ![k] =
                     [via |-> "spawn_on_any", state |-> "closure", spawner |-> t,
                      home |-> w, created |-> 0, polled |-> 0]]
    /\ UNCHANGED <<serverVars, CURRENT, rtLast>>

\* The worker that received the closure of task k calls it: the future is made
\* on that worker and queued there.
CreateFuture(k) ==
    /\ tasks[k].state = "closure"
    /\ tasks' = [tasks EXCEPT ![k].state = "queued", ![k].created = tasks[k].home]
    /\ UNCHANGED <<serverVars, CURRENT, rtLast>>

\* The agent that holds task k polls its future.
PollTask(k) ==
    /\ tasks[k].state \in {"queued", "polled"}
    /\ tasks' = [tasks EXCEPT ![k].state = "polled", ![k].polled = tasks[k].home]
    /\ UNCHANGED <<serverVars, CURRENT, rtLast>>

\* The future of task k has completed.
FinishTask(k) ==
    /\ tasks[k].state = "polled"
    /\ tasks' = [tasks EXCEPT ![k] = NoTask]
    /\ UNCHANGED <<serverVars, CURRENT, rtLast>>

-----------------------------------------------------------------------------
(* Specifications *)

UserStep == SetPort \/ SetOnAccept \/ BuildCall \/ BuildResume \/ Stop \/ DropHandle

\* Everything that runs on the dispatcher's async worker.
DispatcherStep ==
    \/ DispatcherBegin
    \/ DispatcherStartup
    \/ \E i \in Slots : PollAcceptOne(i) \/ ObserveCompletion(i) \/ AcceptResult(i)
    \/ ObserveShutdown
    \/ ReturnPending

SyncWorkerStep ==
    \/ \E i \in Slots : SyncCreateSocket(i) \/ SyncFixup(i)
    \/ \E s \in SocketIds : OrphanFixup(s)

KernelStep == \E i \in Slots : KernelCompleteAccept(i)

\* The kernel ends the AcceptEx operations of a listening socket that has been
\* closed.
KernelCancelStep ==
    \E i \in Slots : listen_socket.state = "closed" /\ KernelCompleteAccept(i)

HandlerStep == \E s \in SocketIds : HandlerStart(s) \/ HandlerFinish(s)

Next == UserStep \/ DispatcherStep \/ SyncWorkerStep \/ KernelStep \/ HandlerStep

Spec == Init /\ [][Next]_vars

\* The current_runtime functions called by any thread in any order.
CurrentRuntimeNext ==
    \/ \E t \in Threads : CurrentRuntimeWith(t)
    \/ \E t \in Threads : CurrentRuntimeTryGet(t)
    \/ \E t \in Threads : CurrentRuntimeIsSome(t)
    \/ \E t \in Threads, value \in Clients : CurrentRuntimeSet(t, value)

CurrentRuntimeSpec == CurrentRuntimeInit /\ [][CurrentRuntimeNext]_vars

\* Tasks spawned by code that runs on the async workers.
SpawnNext ==
    \/ \E t \in Workers, k \in TaskIds : Spawn(t, k)
    \/ \E t \in Workers, k \in TaskIds : SpawnOnAny(t, k)
    \/ \E k \in TaskIds : CreateFuture(k)
    \/ \E k \in TaskIds : PollTask(k)
    \/ \E k \in TaskIds : FinishTask(k)

SpawnSpec == SpawnInit /\ [][SpawnNext]_vars

\* The dispatcher's worker, the synchronous workers and the handlers' workers
\* keep running what they have to run, and the dispatcher does not lose every
\* race against the other threads: if its select can resolve Right again and
\* again, it does at some time.  Clients and the user owe nothing; the kernel
\* owes the completion of the operations of a closed socket.
FairSpec ==
    /\ Spec
    /\ WF_vars(DispatcherStep)
    /\ SF_vars(ObserveShutdown)
    /\ WF_vars(SyncWorkerStep)
    /\ WF_vars(HandlerStep)
    /\ WF_vars(KernelCancelStep)

-----------------------------------------------------------------------------
(* Claims *)

\* C1: when the TcpServerHandle is dropped and stop() was never called, the
\* dispatcher stays in the Accepting state.
C1_DropDoesNotStop ==
    (handle = "dropped" /\ stopCalls = 0) => dispState = "Accepting"

\* C2: once stop() has sent the shutdown signal to a running dispatcher, the
\* dispatcher task eventually terminates.
C2_StopTerminates ==
    (shutdown_msg = "sent") ~> (dispState = "Terminated")

\* C3: the shutdown signal is sent at most once, and a call of stop() after the
\* first changes neither the handle, nor the channel, nor the dispatcher.
C3_StopIdempotent ==
    [][/\ shutdownSends' <= 1
       /\ (stopCalls >= 1 /\ stopCalls' = stopCalls + 1)
            => UNCHANGED <<shutdownVars, handle, buildResult, startup_completed,
                           dispVars, socks>>]_vars

\* C3 witness: stop() was called again, the dispatcher having terminated, and
\* one signal was sent.
C3_Witness ==
    stopCalls >= 2 /\ shutdownSends = 1 /\ dispState = "Terminated"

\* C4 as claimed: on_accept is never called more than once for a connection,
\* and every connection the kernel accepted has had exactly one call of
\* on_accept when its socket is closed.
C4_ExactlyOneOnAccept ==
    [][\A s \in SocketIds :
          /\ socks'[s].invoked <= 1
          /\ (socks[s].state = "open" /\ socks[s].accepted /\ socks'[s].state # "open")
                => socks[s].invoked = 1
      ]_vars

\* C4 amended: on_accept is called at most once per connection and only for an
\* accepted connection; it has been called exactly once for every connection
\* whose handler task bound the socket; a connection whose socket is still with
\* its AcceptOne, its post-accept closure or a handler task not yet run has none.
C4_AtMostOneOnAccept ==
    \A s \in SocketIds :
        /\ socks[s].invoked <= 1
        /\ socks[s].invoked = 1 => socks[s].accepted
        /\ socks[s].owner = "conn" => socks[s].invoked = 1
        /\ socks[s].owner \in {"future", "closure", "orphan", "task"}
              => socks[s].invoked = 0

\* C4 witness: a connection was accepted and on_accept has been called for it,
\* once, while a second accepted connection waits for its handler task.
C4_Witness ==
    \E s, r \in SocketIds :
        /\ socks[s].owner = "conn" /\ socks[s].accepted /\ socks[s].invoked = 1
        /\ socks[r].owner = "task" /\ socks[r].accepted /\ socks[r].invoked = 0

\* C5: on_accept has been called for an open connection only if its accept
\* completion was observed and its socket is bound to the completion port of
\* the worker that runs its handler task.
C5_OnAcceptAfterCompletionAndBind ==
    \A s \in SocketIds :
        (socks[s].invoked >= 1 /\ socks[s].state = "open") =>
            /\ socks[s].accepted /\ socks[s].observed
            /\ socks[s].worker \in Workers
            /\ socks[s].bound = socks[s].worker

\* C5 witness: a handler runs, on a worker other than the dispatcher's.
C5_Witness ==
    \E s \in SocketIds :
        /\ socks[s].owner = "conn" /\ socks[s].invoked = 1
        /\ socks[s].worker # DispatcherWorker

\* C6: whenever the dispatcher is in Accepting, and so whenever it is
\* suspended in the select, accept_futures holds CONCURRENT_ACCEPT_OPERATIONS
\* futures.
C6_PipelineFull ==
    dispState = "Accepting" =>
        FuturesLen(accept_futures) = CONCURRENT_ACCEPT_OPERATIONS

\* C6 witness: the dispatcher awaits with a full set after it has taken a
\* result out of the set (a connection went to a handler).
C6_Witness ==
    /\ dispState = "Accepting" /\ ~polling
    /\ FuturesLen(accept_futures) = CONCURRENT_ACCEPT_OPERATIONS
    /\ \E s \in SocketIds : socks[s].owner \in {"task", "conn"}

\* C7: when a startup step fails the dispatcher has sent Err(e) for that step,
\* has returned, and has created no AcceptOne and no connection socket.
C7_StartupFailureSendsErr ==
    startupFailure # "none" =>
        /\ dispState = "Terminated"
        /\ dispExit = "returned"
        /\ startup_completed = ErrResult("Err", startupFailure)
        /\ FuturesLen(accept_futures) = 0
        /\ \A s \in SocketIds : socks[s].state = "free"

C9_InvalidOptions ==
    (buildPc = "returned" /\ (~port \/ ~on_accept)) =>
        /\ buildResult = ErrResult("InvalidOptions",
                                   IF ~port THEN "port must be set"
                                            ELSE "on_accept must be set")
        /\ dispState = "None"
        /\ startup_completed = NoResult
        /\ shutdown_tx = "none"
        /\ listen_socket = NoListenSocket
        /\ \A s \in SocketIds : socks[s].state = "free"

\* C9 witness: build() returned with both options unset.
C9_Witness ==
    buildPc = "returned" /\ ~port /\ ~on_accept

\* C10: when the dispatcher takes an Err result out of accept_futures it stays
\* in Accepting with the set refilled, and when a handler's future returns (Err
\* or Ok, the closure does not look) the dispatcher is untouched; neither
\* changes what build() returned, the handle or the way the dispatcher task
\* ended.
C10_SteadyStateErrorsNotFatal ==
    [][/\ \A i \in Slots :
            (/\ dispState = "Accepting"
             /\ Resolved(accept_futures[i]) /\ ~accept_futures[i].ok
             /\ accept_futures'[i] # accept_futures[i])
            => /\ dispState' = "Accepting"
               /\ FuturesLen(accept_futures') = CONCURRENT_ACCEPT_OPERATIONS
               /\ UNCHANGED <<buildResult, handle, dispExit, startup_completed>>
       /\ \A s \in SocketIds :
            (socks[s].owner = "conn" /\ socks'[s].owner # "conn")
            => UNCHANGED <<dispVars, buildResult, handle, startup_completed>>]_vars

\* C10 witness: the dispatcher, in its accept loop and being polled, has a
\* failed accept to take out of the set (the connection socket is still open,
\* no connection on it) while a handler's future is running.
C10_Witness ==
    /\ dispState = "Accepting" /\ polling
    /\ \E i \in Slots, s \in SocketIds :
        /\ accept_futures[i].stage = "acceptDone" /\ ~accept_futures[i].ok
        /\ ~socks[accept_futures[i].sock].accepted
        /\ socks[s].owner = "conn"

\* C11: while the kernel has not posted the completion packet of an operation,
\* or the engine has not yet taken the packet from the port, the operation's
\* control block is allocated and its buffer is still lent to it; this holds
\* as well after the operation's future was dropped.
C11_MemoryHeldUntilObserved ==
    \A i \in Slots :
        ops[i].st \in {"pending", "posted"} => ops[i].mem /\ ops[i].lent = i

C11_Witness ==
    \E i \in Slots :
        /\ dispState = "Terminated"
        /\ ~ops[i].awaited
        /\ ops[i].st = "posted"

\* The places that hold the buffer of slot i.
BufferHolders(i) ==
    (IF ops[i].lent = i THEN 1 ELSE 0) + (IF ops[i].res.buffer = i THEN 1 ELSE 0)
        + (IF ops[i].caller = i THEN 1 ELSE 0)

\* C12: an operation that has resolved, with Ok or with an error, carries in
\* its result the buffer that was lent to it and keeps no other copy; the
\* caller that took an Ok result holds that buffer; no buffer is in two places.
C12_BufferHandedBackOnce ==
    \A i \in Slots :
        /\ ops[i].st = "done" =>
              /\ ops[i].res.k \in {"Ok", "Err"}
              /\ ops[i].res.buffer = i
              /\ BufferHolders(i) = 1
        /\ accept_futures[i].stage \in {"fixup", "fixupReady"} =>
              ops[i].caller = i /\ BufferHolders(i) = 1
        /\ BufferHolders(i) <= 1

C12_Witness ==
    \E i \in Slots :
        ops[i].st = "done" /\ ops[i].res.k = "Err" /\ ops[i].res.buffer = i

C14_OnlyDispatcherCloses ==
    /\ listen_socket.closes <= 1
    /\ listen_socket.state = "closed" =>
          listen_socket.closes = 1 /\ listen_socket.closedBy = "dispatcher"

\* C14 as the code has it: the listening socket is closed at most once, by the
\* release that leaves no reference to it.  That release is the dispatcher's,
\* or, after the dispatcher has returned from the accept loop, that of the
\* last post-accept closure still on a synchronous worker.  While the socket
\* is open somebody holds a reference to it.
C14_ClosedOnceByLastHolder ==
    /\ listen_socket.closes <= 1
    /\ listen_socket.state = "closed" =>
          /\ listen_socket.closes = 1
          /\ ListenRefs = 0
          /\ listen_socket.closedBy \in {"dispatcher", "sync worker"}
    /\ listen_socket.closedBy = "sync worker" =>
          dispState = "Terminated" /\ dispExit = "returned"
    /\ listen_socket.state = "listening" => ListenRefs > 0

C14_Witness ==
    /\ listen_socket.state = "closed"
    /\ listen_socket.closedBy = "sync worker"
    /\ listen_socket.closes = 1

\* Nothing of the accept pipeline is left: no operation holds a control block
\* or a buffer, and no open connection socket is without a live owner or
\* waiting in a future or a post-accept closure.
C15_AllReleased ==
    /\ dispState = "Terminated"
    /\ \A i \in Slots : ops[i] \in {NoOp, Released}
    /\ \A s \in SocketIds :
          socks[s].state = "open" => socks[s].owner \in {"task", "conn"}

C17_WithPanicsIffUnregistered ==
    /\ rtLast.fn = "with" =>
          /\ rtLast.panicked <=> CURRENT[rtLast.thread] = 0
          /\ ~rtLast.panicked => rtLast.ret = CURRENT[rtLast.thread]
    /\ rtLast.fn = "try_get" =>
          ~rtLast.panicked /\ rtLast.ret = CURRENT[rtLast.thread]
    /\ rtLast.fn = "is_some" =>
          ~rtLast.panicked /\ (rtLast.flag <=> CURRENT[rtLast.thread] # 0)

C17_Witness ==
    /\ rtLast.fn = "with"
    /\ ~rtLast.panicked
    /\ rtLast.ret # 0
    /\ \E u \in Threads : CURRENT[u] \notin {0, rtLast.ret}

\* C18: a thread's cell, once set, never changes.  A step changes the cell of
\* one thread only, the thread that called set(), and stores the value that
\* thread passed; set() panics exactly when the caller's cell was already set.
C18_SetAtMostOnce ==
    [][ /\ \A t \in Threads :
             /\ CURRENT[t] # 0 => CURRENT'[t] = CURRENT[t]
             /\ CURRENT'[t] # CURRENT[t] =>
                   /\ rtLast'.fn = "set"
                   /\ rtLast'.thread = t
                   /\ CURRENT'[t] = rtLast'.arg
        /\ (rtLast'.fn = "set" /\ rtLast' # rtLast) =>
              (rtLast'.panicked <=> CURRENT[rtLast'.thread] # 0)
      ]_vars

C18_Witness ==
    /\ rtLast.fn = "set"
    /\ rtLast.panicked
    /\ CURRENT[rtLast.thread] \notin {0, rtLast.arg}
    /\ \E u \in Threads : CURRENT[u] = 0

\* C16: the future of a task given to spawn is queued, made and polled on the
\* worker that called spawn.  A future is polled on a worker other than the one
\* that spawned the task only when the task went through spawn_on_any, and then
\* the future is made on the worker that received the closure, not before the
\* closure arrived, and polled only there.
C16_WorkerAffinity ==
    \A k \in TaskIds :
        /\ tasks[k].via = "spawn" =>
              /\ tasks[k].home = tasks[k].spawner
              /\ tasks[k].created = tasks[k].spawner
              /\ tasks[k].polled \in {0, tasks[k].spawner}
        /\ tasks[k].via = "spawn_on_any" =>
              /\ tasks[k].created \in {0, tasks[k].home}
              /\ tasks[k].polled \in {0, tasks[k].home}
              /\ tasks[k].state = "closure" => tasks[k].created = 0
        /\ tasks[k].polled \notin {0, tasks[k].spawner} => tasks[k].via = "spawn_on_any"

C16_Witness ==
    \E j, k \in TaskIds :
        /\ tasks[j].via = "spawn" /\ tasks[j].polled = tasks[j].spawner
        /\ tasks[k].via = "spawn_on_any"
        /\ tasks[k].polled = tasks[k].home
        /\ tasks[k].home # tasks[k].spawner

\* C19: the dispatcher task moves only along Init -> Starting ->
\* (Accepting | Terminated) and Accepting -> (Accepting | Terminated), and
\* never leaves Terminated; it enters Accepting only with Ok sent on the
\* startup channel; and it leaves Accepting for Terminated only when the
\* shutdown signal has been sent.
C19_StateMachine ==
    [][ /\ dispState = "None" => dispState' \in {"None", "Init"}
        /\ dispState = "Init" => dispState' \in {"Init", "Starting"}
        /\ dispState = "Starting" => dispState' \in {"Starting", "Accepting", "Terminated"}
        /\ dispState = "Accepting" => dispState' \in {"Accepting", "Terminated"}
        /\ dispState = "Terminated" => dispState' = "Terminated"
        /\ (dispState # "Accepting" /\ dispState' = "Accepting") =>
              startup_completed' = OkResult
        /\ (dispState = "Accepting" /\ dispState' = "Terminated") =>
              shutdown_msg = "sent"
      ]_vars

\* C20: accept_futures never holds more than CONCURRENT_ACCEPT_OPERATIONS
\* futures, it holds at least one whenever the dispatcher is in its accept
\* loop, and the loop's "accept_futures stream ended unexpectedly" panic never
\* happens, also when several accepts have completed at the same time.
C20_OutstandingAcceptsBounded ==
    /\ FuturesLen(accept_futures) <= CONCURRENT_ACCEPT_OPERATIONS
    /\ dispState = "Accepting" => FuturesLen(accept_futures) >= 1
    /\ dispExit # "stream ended"

C20_Witness ==
    /\ dispState = "Accepting"
    /\ Cardinality({i \in Slots : Resolved(accept_futures[i])}) >= 2
    /\ dispExit = "none"

\* C21: the listening socket is closed only when the dispatcher task has ended
\* and no AcceptOne future and no post-accept closure is left that holds a
\* reference to it; AcceptEx is begun and a post-accept closure (setsockopt
\* with the listening socket's value) is run only while the listening socket
\* is open.
C21_NoUseAfterClose ==
    [][ /\ listen_socket'.state = "closed" =>
              /\ dispState' = "Terminated"
              /\ FuturesLen(accept_futures') = 0
              /\ \A s \in SocketIds : socks'[s].owner \notin {"closure", "orphan"}
        /\ \A i \in Slots :
              (ops[i].st = "none" /\ ops'[i].st # "none") =>
                  listen_socket.state = "listening"
        /\ \A s \in SocketIds :
              (socks[s].owner \in {"closure", "orphan"}
                  /\ socks'[s].owner \notin {"closure", "orphan"}) =>
                  listen_socket.state = "listening"
      ]_vars

\* C21 witness: the dispatcher has returned and dropped its futures, and the
\* listening socket is still open because a post-accept closure on a
\* synchronous worker holds a reference to it.
C21_Witness ==
    /\ dispState = "Terminated" /\ dispExit = "returned"
    /\ listen_socket.state = "listening"
    /\ \E s \in SocketIds : socks[s].owner = "orphan"

\* The abandoned list of the dispatcher worker's engine: operations whose
\* future was dropped and whose control block and buffer the engine still holds.
AbandonedList == {i \in Slots : ~ops[i].awaited /\ ops[i].mem}

\* C22: the step that takes the completion packet of an abandoned operation
\* discards the result, resumes no AcceptOne, ends no task by a panic and
\* leaves the operation released, without control block and with its buffer
\* back in the pool; a released operation is never touched again; an
\* abandoned operation is changed by nothing but the arrival of its packet;
\* and when no packet is outstanding the abandoned list is empty.
C22_AbandonedReclaimedOnce ==
    /\ [](/\ \A i \in Slots :
              /\ (~ops[i].awaited /\ ops[i].mem) =>
                    ops[i].st \in {"pending", "posted"} /\ ops[i].lent = i
              /\ ops[i].st = "released" => ops[i] = Released
          /\ (\A i \in Slots : ops[i].st \notin {"pending", "posted"}) =>
                \A i \in Slots : ~ops[i].mem \/ ops[i].awaited)
    /\ [][\A i \in Slots :
             /\ (~ops[i].awaited /\ ops[i].mem /\ ops'[i] # ops[i]) =>
                   /\ ops'[i] = IF ops[i].st = "posted"
                                   THEN Released
                                   ELSE [ops[i] EXCEPT !.st = "posted"]
                   /\ UNCHANGED <<accept_futures, socks, dispState, dispExit>>
             /\ ops[i].st = "released" => ops'[i].st = "released"
       ]_vars

\* C22 witness: two abandoned operations have been released and no completion
\* packet is outstanding.
C22_Witness ==
    /\ Cardinality({i \in Slots : ops[i] = Released}) >= 2
    /\ \A i \in Slots : ops[i].st \notin {"pending", "posted"}

\* C23: when the initiator returns success at once the operation is not
\* resolved by that return: it waits, unresolved and with its buffer still
\* lent, for the packet the kernel has queued on the port, and the next thing
\* that happens to it while it is awaited is that the engine takes the packet
\* and resolves it with Ok and its buffer.  An operation resolves with Ok only
\* in the step in which the engine takes its packet, and a resolved operation
\* is never resolved again.
C23_ImmediateCompletionOnce ==
    /\ [](\A i \in Slots :
              ops[i].imm =>
                  /\ ops[i].st = "posted"
                  /\ ops[i].res = NoOp.res
                  /\ ops[i].lent = i
                  /\ ~Woken(accept_futures[i]))
    /\ [][\A i \in Slots :
             /\ (ops[i].imm /\ ops'[i] # ops[i]) =>
                   \/ ops'[i] = [ops[i] EXCEPT !.awaited = FALSE]
                   \/ ~ops[i].awaited /\ ops'[i] = Released
                   \/ /\ ops[i].awaited /\ ~polling
                      /\ ops'[i].st = "done" /\ ops'[i].res = OperationOk(i)
                      /\ accept_futures'[i].stage = "acceptDone"
             /\ (ops'[i].st = "done" /\ ops[i].st # "done" /\ ops'[i].res.k = "Ok") =>
                   ops[i].st = "posted" /\ ~polling
             /\ ops[i].st = "done" => (ops'[i] = ops[i] \/ ops'[i].st = "none")
       ]_vars

\* C23 witness: the initiator of one operation has returned success at once;
\* the connection is accepted, the operation is unresolved, its AcceptOne is
\* not woken and its packet waits in the port for the engine, which can run.
C23_Witness ==
    \E i \in Slots :
        /\ ops[i].imm /\ ops[i].awaited
        /\ ops[i].st = "posted"
        /\ accept_futures[i].stage = "packetPosted"
        /\ socks[accept_futures[i].sock].accepted
        /\ dispState = "Accepting" /\ ~polling

\* C24: an AcceptOne that awaits its operation is resumed only by the step in
\* which the engine takes the packet of that same operation; the step that
\* takes the packet of one operation changes no other operation and resumes no
\* other AcceptOne; and an operation the kernel has not completed stays
\* pending with its AcceptOne not woken.
C24_CompletionRouting ==
    /\ [](\A i \in Slots :
              (ops[i].st = "pending" /\ ops[i].awaited)
                  => accept_futures[i].stage = "acceptPending")
    /\ [][\A i \in Slots :
             /\ (accept_futures'[i].stage = "acceptDone"
                   /\ accept_futures[i].stage \in {"acceptPending", "packetPosted"})
                   => /\ ops[i].st = "posted" /\ ops[i].awaited
                      /\ ops'[i].st = "done"
                      /\ ~polling
             /\ (ops[i].st = "posted" /\ ops'[i].st \in {"done", "released"})
                   => \A j \in Slots \ {i} :
                         ops'[j] = ops[j] /\ accept_futures'[j] = accept_futures[j]
             /\ ops[i].st = "pending" => ops'[i].st \in {"pending", "posted"}
       ]_vars

\* C24 witness: the packet of one operation has resolved that operation and
\* woken its AcceptOne, while another operation, with no connection for it, is
\* still pending and its AcceptOne is not woken.
C24_Witness ==
    \E i, j \in Slots :
        /\ ops[i].st = "done" /\ accept_futures[i].stage = "acceptDone"
        /\ ops[j].st = "pending" /\ accept_futures[j].stage = "acceptPending"
        /\ ~polling

\* Changes of owner of an open connection socket that are a transfer: into the
\* post-accept closure and back, from a dropped AcceptOne's closure to nobody
\* but the closure, from the AcceptOne to the handler task and from the task
\* to the TcpConnection given to on_accept.
OwnerTransfers ==
    {<<"future", "closure">>, <<"closure", "future">>, <<"closure", "orphan">>,
     <<"future", "task">>, <<"task", "conn">>}

\* C25: a connection socket is open exactly while it has an owner, and it has
\* one owner: an AcceptOne refers only to an open socket that it or its
\* post-accept closure owns, no two AcceptOnes refer to the same socket, and a
\* socket owned by an AcceptOne or its closure is referred to by one.  An open
\* socket leaves its owner only by a transfer to the next owner or by being
\* closed; when an AcceptOne gives up a socket (accept failure, setsockopt
\* failure, drop at shutdown, result taken by the dispatcher) the socket is
\* closed, or is with the handler task, or stays with the closure that will
\* close it; a socket with a closure left behind, a handler task or a
\* TcpConnection ends closed.
C25_ConnectionSocketClosedOnce ==
    /\ [](\A s \in SocketIds :
              /\ (socks[s].state = "open") <=> (socks[s].owner # "none")
              /\ socks[s].state # "open" => socks[s] = FreeSock
              /\ socks[s].owner \in {"future", "closure"} =>
                    Cardinality({i \in Slots : accept_futures[i].sock = s}) = 1
              /\ socks[s].owner \notin {"future", "closure"} =>
                    \A i \in Slots : accept_futures[i].sock # s)
    /\ [][ /\ \A s \in SocketIds :
                 /\ (socks[s].state = "open" /\ socks'[s].owner # socks[s].owner) =>
                       \/ socks'[s] = FreeSock
                       \/ <<socks[s].owner, socks'[s].owner>> \in OwnerTransfers
                 /\ (socks[s].owner \in {"orphan", "conn"} /\ socks'[s] # socks[s]) =>
                       socks'[s] = FreeSock
           /\ \A i \in Slots :
                 LET s == accept_futures[i].sock IN
                 (s # 0 /\ accept_futures'[i].sock # s) =>
                     \/ socks'[s] = FreeSock
                     \/ socks'[s].owner = "task" /\ accept_futures[i].ok
                     \/ socks'[s].owner = "orphan" /\ dispState' = "Terminated"
         ]_vars

\* C25 witness: the dispatcher has returned having dropped an AcceptOne whose
\* accept was pending in the kernel; the operation has since been released
\* and every connection socket is closed.
C25_Witness ==
    /\ dispState = "Terminated" /\ dispExit = "returned"
    /\ \E i \in Slots : ops[i] = Released
    /\ \A s \in SocketIds : socks[s] = FreeSock

\* C26: when a post-accept closure returns, and its RSS affinity query has
\* run, the AcceptOne has the connection socket back and resolves with Ok,
\* whichever way the query ended; when setsockopt failed (the query has not
\* run) the AcceptOne resolves with Err, the socket is closed and on_accept was
\* not called for it.  The dispatcher hands the socket of an Ok result to a
\* handler task, and an Err result puts no socket with a handler task.
C26_PostAcceptFixups ==
    [][\A i \in Slots :
          LET s == accept_futures[i].sock IN
          /\ (accept_futures[i].stage = "fixup"
                /\ accept_futures'[i].stage = "fixupReady") =>
                IF accept_futures'[i].rss # "none"
                THEN /\ accept_futures'[i].ok
                     /\ accept_futures'[i].sock = s
                     /\ socks'[s].state = "open" /\ socks'[s].owner = "future"
                ELSE /\ ~accept_futures'[i].ok
                     /\ accept_futures'[i].sock = 0
                     /\ socks[s].invoked = 0
                     /\ socks'[s] = FreeSock
          /\ (accept_futures[i].stage = "fixupReady"
                /\ accept_futures'[i] # accept_futures[i]) =>
                IF accept_futures[i].ok
                THEN socks'[s].owner = "task" /\ socks'[s].worker \in Workers
                ELSE \A r \in SocketIds :
                        socks'[r].owner = "task" => socks[r].owner = "task"
      ]_vars

\* C26 witness: the RSS query of one connection failed with an error that is
\* not tolerated and its AcceptOne is ready to return the socket, while the
\* setsockopt of another connection failed and its AcceptOne has no socket.
C26_Witness ==
    \E i, j \in Slots :
        /\ accept_futures[i].stage = "fixupReady" /\ accept_futures[i].rss = "error"
        /\ accept_futures[i].ok /\ accept_futures[i].sock # 0
        /\ accept_futures[j].stage = "fixupReady" /\ ~accept_futures[j].ok
        /\ accept_futures[j].sock = 0

\* C27: an operation is begun for an AcceptOne only when its socket-creation
\* closure has returned a socket, which is open and owned by the AcceptOne; the
\* post-accept closure is started only when the accept operation has resolved
\* with Ok from an observed completion of an accepted connection; and an
\* AcceptOne whose socket creation failed has no socket, no operation and no
\* buffer, and still has none when the dispatcher takes its error.
C27_StepOrder ==
    /\ [](\A i \in Slots :
              (accept_futures[i].stage = "socketReady" /\ ~accept_futures[i].ok) =>
                  /\ accept_futures[i].sock = 0
                  /\ ops[i] = NoOp
                  /\ BufferHolders(i) = 0)
    /\ [][\A i \in Slots :
             LET f == accept_futures[i]
                 s == f.sock
             IN
             /\ (ops[i].st = "none" /\ ops'[i].st # "none") =>
                   /\ f.stage = "socketReady" /\ f.ok /\ s # 0
                   /\ socks[s].state = "open" /\ socks[s].owner = "future"
             /\ (accept_futures'[i].stage = "fixup" /\ f.stage # "fixup") =>
                   /\ f.stage = "acceptDone" /\ f.ok
                   /\ ops[i].st = "done" /\ ops[i].res = OperationOk(i)
                   /\ socks[s].accepted /\ socks[s].observed
             /\ (f.stage = "socketReady" /\ ~f.ok) =>
                   /\ ops'[i] = NoOp
                   /\ accept_futures'[i] \in {f, NewAcceptOne}
       ]_vars

\* C27 witness: one AcceptOne has gone through socket creation and accept and
\* has started its post-accept closure, holding the accept buffer; the socket
\* creation of another failed and it has no operation.
C27_Witness ==
    \E i, j \in Slots :
        /\ accept_futures[i].stage = "fixup" /\ ops[i].caller = i
        /\ accept_futures[j].stage = "socketReady" /\ ~accept_futures[j].ok
        /\ ops[j] = NoOp

\* C28: once the dispatcher task is past startup, one message, Ok or Err, has
\* been sent on the startup channel; the channel holds a message that was
\* sent, never the mark of a Sender dropped unsent; and AcceptOne futures
\* exist only after Ok was sent.
C28_ExactlyOneStartupMessage ==
    /\ dispState \in {"Accepting", "Terminated"} => startup_completed.k \in {"Ok", "Err"}
    /\ startup_completed.k = "Err" => startupFailure # "none"
    /\ FuturesLen(accept_futures) > 0 => startup_completed = OkResult

=============================================================================
